---- MODULE Spec2Model ----
(***************************************************************************)
(* A model of redback's Afterglow data container                          *)
(* (redback/redback/transient/afterglow.py) and of the tidal disruption    *)
(* event models (redback/transient_models/tde_models.py).                  *)
(*                                                                         *)
(* Units.  Times and time errors are integers in microseconds, redshifts   *)
(* are integers in quarters (z = q/4), so that every division the code     *)
(* performs on the values drawn below is exact.  A numpy array of one      *)
(* dimension is a sequence of [row, val]; a 2xN error array is             *)
(* [ndim |-> 2, cols |-> sequence of [row, pos, neg]], and np.array([])    *)
(* is [ndim |-> 1, cols |-> <<>>].  "row" is the index of the observation  *)
(* in the file the value was read from.                                    *)
(***************************************************************************)
EXTENDS Integers, Sequences, FiniteSets, TLC

VARIABLES
    self,        \* the Afterglow object's attributes
    data_file,   \* data mode -> rows of the csv file of that mode
    last_call,   \* the last method called on the object and how it ended
    name,        \* the Afterglow's name attribute, a sequence of characters
    stripped,    \* what the property _stripped_name last returned
    tde,         \* the last call of a function of tde_models and its outcome
    mz           \* the locals of the _metzger_tde call in progress

vars == <<self, data_file, last_call, name, stripped, tde, mz>>
afterglowVars == <<self, data_file, last_call>>
nameVars == <<name, stripped>>

\* ------------------------------------------------------------------ bounds
MaxRows == 2
MaxCalls == 2

\* ---------------------------------------------------------- numpy helpers
Abs(x) == IF x < 0 THEN -x ELSE x

Empty1D == [ndim |-> 1, cols |-> <<>>]

Ok(s) == [self |-> s, raised |-> "none"]
Raise(s, e) == [self |-> s, raised |-> e]

RECURSIVE Compress(_, _)
\* a[keep] for a boolean index of the same length
Compress(a, keep) ==
    IF a = <<>> THEN <<>>
    ELSE (IF Head(keep) THEN <<Head(a)>> ELSE <<>>) \o Compress(Tail(a), Tail(keep))

\* a[k:] with Python's treatment of a negative or too large start
SliceFrom(a, k) ==
    LET n == Len(a)
        start == IF k >= 0 THEN k ELSE (IF n + k > 0 THEN n + k ELSE 0)
    IN IF start >= n THEN <<>> ELSE SubSeq(a, start + 1, n)

\* np.argmax: the first index (0-based) of the largest value
ArgMax(a) ==
    (CHOOSE i \in 1..Len(a) :
        /\ \A j \in 1..Len(a) : a[j].val <= a[i].val
        /\ \A j \in 1..(i - 1) : a[j].val < a[i].val) - 1

Not(mask) == [i \in 1..Len(mask) |-> ~mask[i]]

\* self.<field> = self.<field>[keep]
SetMasked(r, field, keep) ==
    IF r.raised # "none" THEN r
    ELSE IF Len(r.self[field]) # Len(keep) THEN Raise(r.self, "IndexError")
    ELSE Ok([r.self EXCEPT ![field] = Compress(@, keep)])

\* self.<field> = self.<field>[:, keep]
SetMaskedErr(r, field, keep) ==
    IF r.raised # "none" THEN r
    ELSE IF r.self[field].ndim = 1 THEN Raise(r.self, "IndexError")
    ELSE IF Len(r.self[field].cols) # Len(keep) THEN Raise(r.self, "IndexError")
    ELSE Ok([r.self EXCEPT ![field].cols = Compress(@, keep)])

\* self.<field> = self.<field>[k:]
SetSliced(r, field, k) ==
    IF r.raised # "none" THEN r
    ELSE Ok([r.self EXCEPT ![field] = SliceFrom(@, k)])

\* self.<field> = self.<field>[:, k:]
SetSlicedErr(r, field, k) ==
    IF r.raised # "none" THEN r
    ELSE IF r.self[field].ndim = 1 THEN Raise(r.self, "IndexError")
    ELSE Ok([r.self EXCEPT ![field].cols = SliceFrom(@, k)])

\* ------------------------------------------------------------- Afterglow
DATA_MODES == <<"luminosity", "flux", "flux_density", "photometry">>

luminosity_data(s) == s.data_mode = DATA_MODES[1]
flux_data(s) == s.data_mode = DATA_MODES[2]
fluxdensity_data(s) == s.data_mode = DATA_MODES[3]
photometry_data(s) == s.data_mode = DATA_MODES[4]

\* The data modes load_data reads a file for.
ModeSet == {DATA_MODES[i] : i \in 1..3}

\* The redshift attribute: NaN when the burst has no measurement.
NaN == <<>>
Redshifts == {NaN, <<4>>}

\* Values a csv file holds (microseconds; the negative error column is signed).
\* The half width of a time bin is shorter than the time since the trigger.
Times == {560000, 1680000, 112000000}
TimeErrs == {1400, 504000, 5600000}
Ys == {2, 4}
RowChoices ==
    {r \in {[t |-> t, tp |-> e, tn |-> -e, y |-> y, yp |-> 2, yn |-> -2] :
                t \in Times, e \in TimeErrs, y \in Ys} : r.tp < r.t}

\* Light-curve files of 1..MaxRows observations in time order.
Tables ==
    UNION {{f \in [1..n -> RowChoices] : \A i \in 1..(n - 1) : f[i].t < f[i + 1].t} :
        n \in 1..MaxRows}

\* The attributes as __init__ leaves them before its call of load_data.
NewAfterglow(mode, z) ==
    [data_mode |-> mode, redshift |-> z,
     time |-> <<>>, time_rest_frame |-> <<>>,
     time_err |-> Empty1D, time_rest_frame_err |-> Empty1D,
     Lum50 |-> <<>>, Lum50_err |-> Empty1D,
     flux_density |-> <<>>, flux_density_err |-> Empty1D,
     flux |-> <<>>, flux_err |-> Empty1D]

Column0(data) == [i \in 1..Len(data) |-> [row |-> i, val |-> data[i].t]]
Columns12(data) ==
    [ndim |-> 2,
     cols |-> [i \in 1..Len(data) |->
                  [row |-> i, pos |-> Abs(data[i].tp), neg |-> Abs(data[i].tn)]]]

\* _load: (data[:, 3], abs(data[:, 4:].T))
Load_y(data) == [i \in 1..Len(data) |-> [row |-> i, val |-> data[i].y]]
Load_y_err(data) ==
    [ndim |-> 2,
     cols |-> [i \in 1..Len(data) |->
                  [row |-> i, pos |-> Abs(data[i].yp), neg |-> Abs(data[i].yn)]]]

\* load_data.  A file of a header and no rows is read as a one-dimensional
\* array, and data[:, 0] then raises IndexError.
load_data(s, files, mode) ==
    LET s1 == IF mode # "None" THEN [s EXCEPT !.data_mode = mode] ELSE s
        data == files[s1.data_mode]
    IN IF Len(data) = 0 THEN Raise(s1, "IndexError")
       ELSE IF luminosity_data(s1) THEN
            Ok([s1 EXCEPT !.time_rest_frame = Column0(data),
                          !.time_rest_frame_err = Columns12(data),
                          !.Lum50 = Load_y(data),
                          !.Lum50_err = Load_y_err(data)])
       ELSE IF fluxdensity_data(s1) THEN
            Ok([s1 EXCEPT !.time = Column0(data),
                          !.time_err = Columns12(data),
                          !.flux_density = Load_y(data),
                          !.flux_density_err = Load_y_err(data)])
       ELSE IF flux_data(s1) THEN
            Ok([s1 EXCEPT !.time = Column0(data),
                          !.time_err = Columns12(data),
                          !.flux = Load_y(data),
                          !.flux_err = Load_y_err(data)])
       ELSE Ok(s1)

PromptErrCut == 2500
PromptTimeCut == 2000000

\* mask = (time_err[0, :] > 0.0025) & (time < 2.0), with the rest-frame
\* arrays in luminosity mode
PromptMask(x, xe) ==
    [i \in 1..Len(x) |-> xe.cols[i].pos > PromptErrCut /\ x[i].val < PromptTimeCut]

_truncate_prompt_time_error(s) ==
    LET x == IF luminosity_data(s) THEN s.time_rest_frame ELSE s.time
        xe == IF luminosity_data(s) THEN s.time_rest_frame_err ELSE s.time_err
    IN IF xe.ndim = 1 THEN Raise(s, "IndexError")
       ELSE IF Len(xe.cols) # Len(x) THEN Raise(s, "ValueError")
       ELSE LET keep == Not(PromptMask(x, xe))
            IN IF luminosity_data(s) THEN
                    SetMaskedErr(
                      SetMasked(
                        SetMaskedErr(
                          SetMasked(Ok(s), "time_rest_frame", keep),
                          "time_rest_frame_err", keep),
                        "Lum50", keep),
                      "Lum50_err", keep)
               ELSE IF flux_data(s) THEN
                    SetMaskedErr(SetMasked(Ok(s), "flux", keep), "flux_err", keep)
               ELSE IF fluxdensity_data(s) THEN
                    SetMaskedErr(SetMasked(Ok(s), "flux_density", keep),
                                 "flux_density_err", keep)
               ELSE Ok(s)

\* the tail of _truncate_left_of_max: time and time_err are cut in every mode
CutTime(r, k) == SetSlicedErr(SetSliced(r, "time", k), "time_err", k)

_truncate_left_of_max(s) ==
    IF luminosity_data(s) THEN
        IF s.Lum50 = <<>> THEN Raise(s, "ValueError")
        ELSE LET k == ArgMax(s.Lum50)
             IN CutTime(
                  SetSlicedErr(
                    SetSliced(
                      SetSlicedErr(
                        SetSliced(Ok(s), "time_rest_frame", k),
                        "time_rest_frame_err", k),
                      "Lum50", k),
                    "Lum50_err", k),
                  k)
    ELSE IF flux_data(s) THEN
        IF s.flux = <<>> THEN Raise(s, "ValueError")
        ELSE LET k == ArgMax(s.flux)
             IN CutTime(SetSlicedErr(SetSliced(Ok(s), "flux", k), "flux_err", k), k)
    ELSE IF fluxdensity_data(s) THEN
        IF s.flux_density = <<>> THEN Raise(s, "ValueError")
        ELSE LET k == ArgMax(s.flux_density)
             IN CutTime(SetSlicedErr(SetSliced(Ok(s), "flux_density", k),
                                     "flux_density_err", k), k)
    ELSE Raise(s, "ValueError")

DefaultErrCut == 100000

_truncate_default(s) ==
    IF s.time_err.ndim = 1 THEN Raise(s, "IndexError")
    ELSE IF Len(s.time_err.cols) # Len(s.time) THEN Raise(s, "IndexError")
    ELSE
      LET n_truncate == Cardinality({i \in 1..Len(s.time) :
                                        s.time_err.cols[i].pos > DefaultErrCut})
          to_del == Len(s.time) - (n_truncate + 2)
          r0 == CutTime(Ok(s), to_del)
      IN IF luminosity_data(s) THEN
              SetSlicedErr(
                SetSliced(
                  SetSlicedErr(
                    SetSliced(r0, "time_rest_frame", to_del),
                    "time_rest_frame_err", to_del),
                  "Lum50", to_del),
                "Lum50_err", to_del)
         ELSE IF flux_data(s) THEN
              SetSlicedErr(SetSliced(r0, "flux", to_del), "flux_err", to_del)
         ELSE IF fluxdensity_data(s) THEN
              SetSlicedErr(SetSliced(r0, "flux_density", to_del),
                           "flux_density_err", to_del)
         ELSE r0

TruncateMethods == {"prompt_time_error", "left_of_max", "default"}

truncate(s, truncate_method) ==
    IF truncate_method = "prompt_time_error" THEN _truncate_prompt_time_error(s)
    ELSE IF truncate_method = "left_of_max" THEN _truncate_left_of_max(s)
    ELSE _truncate_default(s)

load_and_truncate_data(s, files, do_truncate, truncate_method, mode) ==
    LET r == load_data(s, files, mode)
    IN IF r.raised # "none" THEN r
       ELSE IF do_truncate THEN truncate(r.self, truncate_method)
       ELSE r

\* _get_redshift_for_luminosity_calculation: "None" stands for Python's None.
DefaultRedshift == <<3>>

_get_redshift_for_luminosity_calculation(s) ==
    IF s.redshift = NaN THEN DefaultRedshift
    ELSE IF s.data_mode = "luminosity" THEN "None"
    ELSE IF s.data_mode = "flux_density" THEN "None"
    ELSE s.redshift

\* 1 + redshift, in quarters
OnePlusZ(z) == 4 + z[1]

ScaleErr(e, num, den) ==
    [ndim |-> e.ndim,
     cols |-> [i \in 1..Len(e.cols) |->
                  [row |-> e.cols[i].row,
                   pos |-> (e.cols[i].pos * num) \div den,
                   neg |-> (e.cols[i].neg * num) \div den]]]

\* A slip of the conversion: the luminosity is taken from the flux density.
calculate_from_flux_density(s, fraction_num, fraction_den, iso, z) ==
    [s EXCEPT
        !.Lum50 = [i \in 1..Len(s.flux_density) |->
                      [row |-> s.flux_density[i].row,
                       val |-> ((s.flux_density[i].val * fraction_num) \div fraction_den)
                                   * iso]],
        !.Lum50_err = ScaleErr(s.flux_density_err, iso, 1),
        !.time_rest_frame = [i \in 1..Len(s.time) |->
                                [row |-> s.time[i].row,
                                 val |-> (s.time[i].val * 4) \div OnePlusZ(z)]],
        !.time_rest_frame_err = ScaleErr(s.time_err, 4, OnePlusZ(z))]

\* _calculate_rest_frame_time_and_luminosity.  counts_to_flux_fraction is
\* fraction_num / fraction_den; isotropic_bolometric_flux stands for the
\* product isotropic_bolometric_flux * 1e-50.
_calculate_rest_frame_time_and_luminosity(s, fraction_num, fraction_den, iso, z) ==
    [s EXCEPT
        !.Lum50 = [i \in 1..Len(s.flux) |->
                      [row |-> s.flux[i].row,
                       val |-> ((s.flux[i].val * fraction_num) \div fraction_den)
                                   * iso]],
        !.Lum50_err = ScaleErr(s.flux_err, iso, 1),
        !.time_rest_frame = [i \in 1..Len(s.time) |->
                                [row |-> s.time[i].row,
                                 val |-> (s.time[i].val * 4) \div OnePlusZ(z)]],
        !.time_rest_frame_err = ScaleErr(s.time_err, 4, OnePlusZ(z))]

\* The rows _save_luminosity_data hands to DataFrame.to_csv.
LuminosityRows(s) ==
    [i \in 1..Len(s.Lum50) |->
        [t |-> s.time_rest_frame[i].val,
         tp |-> s.time_rest_frame_err.cols[i].pos,
         tn |-> s.time_rest_frame_err.cols[i].neg,
         y |-> s.Lum50[i].val,
         yp |-> s.Lum50_err.cols[i].pos,
         yn |-> s.Lum50_err.cols[i].neg]]

\* _save_luminosity_data: [raised, files, wrote]
_save_luminosity_data(s, files) ==
    IF s.time_rest_frame_err.ndim = 1 \/ s.Lum50_err.ndim = 1 THEN
        [raised |-> "IndexError", files |-> files, wrote |-> FALSE]
    ELSE IF \/ Len(s.time_rest_frame_err.cols) # Len(s.time_rest_frame)
            \/ Len(s.Lum50) # Len(s.time_rest_frame)
            \/ Len(s.Lum50_err.cols) # Len(s.time_rest_frame) THEN
        [raised |-> "ValueError", files |-> files, wrote |-> FALSE]
    ELSE [raised |-> "none",
          files |-> [files EXCEPT ![s.data_mode] = LuminosityRows(s)],
          wrote |-> TRUE]

\* What remains of both conversions once the factors are known.
ConvertAndSave(s, files, fraction_num, fraction_den, iso, z) ==
    LET s1 == _calculate_rest_frame_time_and_luminosity(s, fraction_num, fraction_den, iso, z)
        s2 == [s1 EXCEPT !.data_mode = "luminosity"]
        w == _save_luminosity_data(s2, files)
    IN [self |-> s2, raised |-> w.raised, files |-> w.files, wrote |-> w.wrote]

Unconverted(s, files, e) ==
    [self |-> s, raised |-> e, files |-> files, wrote |-> FALSE]

\* (luminosity_distance ** 2.) * 4. * np.pi * k_corr * 1e-50: the distance and
\* the k-correction come from the cosmology library and from sherpa; all that
\* is kept of them is a positive factor that grows with the redshift.
isotropic_bolometric_flux(z) == OnePlusZ(z) - 3

analytical_flux_to_luminosity(s, files) ==
    LET redshift == _get_redshift_for_luminosity_calculation(s)
    IN IF redshift = "None" THEN Unconverted(s, files, "none")
       ELSE ConvertAndSave(s, files, 1, 1, isotropic_bolometric_flux(redshift), redshift)

\* numerical_flux_to_luminosity; have_sherpa tells whether the import of
\* sherpa succeeded: without it the name sherpa is unbound at its first use.
numerical_flux_to_luminosity(s, files, counts_to_flux_absorbed, counts_to_flux_unabsorbed, have_sherpa) ==
    LET redshift == _get_redshift_for_luminosity_calculation(s)
    IN IF redshift = "None" THEN Unconverted(s, files, "none")
       ELSE IF ~have_sherpa THEN Unconverted(s, files, "NameError")
       ELSE ConvertAndSave(s, files, counts_to_flux_unabsorbed,
                           counts_to_flux_absorbed, isotropic_bolometric_flux(redshift),
                           redshift)

\* ----------------------------------------------- the Afterglow as a machine
\* (counts_to_flux_absorbed, counts_to_flux_unabsorbed)
CountsToFlux == {<<1, 1>>, <<1, 2>>}

\* n counts the calls made on the object since its construction.
Call(op, arg, pre, raised, wrote, n) ==
    [op |-> op, arg |-> arg, pre_mode |-> pre, raised |-> raised, wrote |-> wrote,
     n |-> n]

MayCall == last_call.n < MaxCalls

Unread == <<"?">>
TdeIdle == [fn |-> "-"]
MzIdle == [pc |-> "-"]

\* Afterglow(name), with the default data_mode='flux': the attributes are reset
\* and load_data is called.
InitAfterglow ==
    /\ \E tbl \in Tables : data_file = [m \in ModeSet |-> tbl]
    /\ \E z \in Redshifts :
          LET r == load_data(NewAfterglow("flux", z), data_file, "flux")
          IN /\ self = r.self
             /\ last_call = Call("__init__", "-", "-", r.raised, FALSE, 0)
    /\ name = <<"G", "R", "B">> /\ stripped = Unread
    /\ tde = TdeIdle /\ mz = MzIdle

LoadData ==
    /\ MayCall
    /\ \E mode \in ModeSet \cup {"None"} :
        LET r == load_data(self, data_file, mode)
        IN /\ self' = r.self
           /\ last_call' = Call("load_data", "-", "-", r.raised, FALSE, last_call.n + 1)
           /\ UNCHANGED <<data_file, nameVars, tde, mz>>

Truncate ==
    /\ MayCall
    /\ \E m \in TruncateMethods :
        LET r == truncate(self, m)
        IN /\ self' = r.self
           /\ last_call' = Call("truncate", m, "-", r.raised, FALSE, last_call.n + 1)
           /\ UNCHANGED <<data_file, nameVars, tde, mz>>

LoadAndTruncateData ==
    /\ MayCall
    /\ \E m \in TruncateMethods \cup {"-"}, mode \in ModeSet :
        \* "-": truncate=False, and the method is not looked at
        LET r == load_and_truncate_data(self, data_file, m # "-", m, mode)
        IN /\ self' = r.self
           /\ last_call' = Call("load_and_truncate_data", m, "-", r.raised, FALSE,
                                last_call.n + 1)
           /\ UNCHANGED <<data_file, nameVars, tde, mz>>

AnalyticalFluxToLuminosity ==
    /\ MayCall
    /\ LET r == analytical_flux_to_luminosity(self, data_file)
        IN /\ self' = r.self
           /\ data_file' = r.files
           /\ last_call' = Call("analytical_flux_to_luminosity", "-",
                                self.data_mode, r.raised, r.wrote, last_call.n + 1)
           /\ UNCHANGED <<nameVars, tde, mz>>

NumericalFluxToLuminosity ==
    /\ MayCall
    /\ \E counts \in CountsToFlux, have_sherpa \in BOOLEAN :
        LET r == numerical_flux_to_luminosity(self, data_file, counts[1], counts[2],
                                              have_sherpa)
        IN /\ self' = r.self
           /\ data_file' = r.files
           /\ last_call' = Call("numerical_flux_to_luminosity", "-",
                                self.data_mode, r.raised, r.wrote, last_call.n + 1)
           /\ UNCHANGED <<nameVars, tde, mz>>

NextAfterglow ==
    \/ LoadData
    \/ Truncate
    \/ LoadAndTruncateData
    \/ AnalyticalFluxToLuminosity
    \/ NumericalFluxToLuminosity

SpecAfterglow == InitAfterglow /\ [][NextAfterglow]_vars

\* One Afterglow of a single observation, for the parts that look at the name
\* or at the models only.
AfterglowAside ==
    /\ data_file = [m \in ModeSet |->
                       <<[t |-> 560000, tp |-> 1400, tn |-> -1400,
                          y |-> 2, yp |-> 2, yn |-> -2]>>]
    /\ LET r == load_data(NewAfterglow("flux", NaN), data_file, "flux")
       IN /\ self = r.self
          /\ last_call = Call("__init__", "-", "-", r.raised, FALSE, 0)

\* ------------------------------------------------- claims on the Afterglow
Rows(a) == [i \in 1..Len(a) |-> a[i].row]
ErrRows(e) == [ndim |-> e.ndim, rows |-> Rows(e.cols)]

ConversionCalls == {"analytical_flux_to_luminosity", "numerical_flux_to_luminosity"}

\* C2: analytical_flux_to_luminosity in 'flux' mode with a measured redshift
\* ends in 'luminosity' mode, with Lum50, Lum50_err, time_rest_frame and
\* time_rest_frame_err holding one entry per point of flux, flux_err, time and
\* time_err, in the same order.
C2_FluxToLuminosity ==
    (/\ last_call.op = "analytical_flux_to_luminosity"
     /\ last_call.pre_mode = "flux"
     /\ self.redshift # NaN)
    => /\ self.data_mode = "luminosity"
       /\ Rows(self.Lum50) = Rows(self.flux)
       /\ ErrRows(self.Lum50_err) = ErrRows(self.flux_err)
       /\ Rows(self.time_rest_frame) = Rows(self.time)
       /\ ErrRows(self.time_rest_frame_err) = ErrRows(self.time_err)

\* A conversion of a light curve whose flux was truncated to one point while
\* its times kept both.
C2_Witness ==
    /\ last_call.op = "analytical_flux_to_luminosity"
    /\ last_call.pre_mode = "flux"
    /\ self.redshift # NaN
    /\ Len(self.Lum50) = 1 /\ Len(self.time_rest_frame) = 2
    /\ self.Lum50[1].val = self.flux[1].val * isotropic_bolometric_flux(self.redshift)

\* C3: in 'luminosity' or 'flux_density' mode a call of either conversion
\* changes none of data_mode, Lum50, Lum50_err, time_rest_frame and
\* time_rest_frame_err and writes no luminosity file, whatever the redshift.
C3_NoConversionOutsideFluxMode ==
    [][(/\ self.data_mode \in {"luminosity", "flux_density"}
        /\ last_call'.op \in ConversionCalls
        /\ last_call'.n = last_call.n + 1)
       => /\ self'.data_mode = self.data_mode
          /\ self'.Lum50 = self.Lum50
          /\ self'.Lum50_err = self.Lum50_err
          /\ self'.time_rest_frame = self.time_rest_frame
          /\ self'.time_rest_frame_err = self.time_rest_frame_err
          /\ ~last_call'.wrote
          /\ data_file' = data_file]_vars

\* The arrays of the active data mode.
ActiveTime(s) == IF luminosity_data(s) THEN s.time_rest_frame ELSE s.time
ActiveTimeErr(s) == IF luminosity_data(s) THEN s.time_rest_frame_err ELSE s.time_err
ActiveY(s) ==
    IF luminosity_data(s) THEN s.Lum50
    ELSE IF flux_data(s) THEN s.flux ELSE s.flux_density
ActiveYErr(s) ==
    IF luminosity_data(s) THEN s.Lum50_err
    ELSE IF flux_data(s) THEN s.flux_err ELSE s.flux_density_err

\* The docstring of load_and_truncate_data: a point whose time error is below
\* 1 s is part of the prompt emission, and all but the last of them go.
OneSecond == 1000000
IsPrompt(data, i) == Abs(data[i].tp) < OneSecond
KeptByDocstring(data) ==
    LET keep == [i \in 1..Len(data) |->
                    \/ ~IsPrompt(data, i)
                    \/ \A j \in (i + 1)..Len(data) : ~IsPrompt(data, j)]
    IN Compress([i \in 1..Len(data) |-> i], keep)

\* C4: load_and_truncate_data with truncate=True and the default method keeps
\* every point whose time error is 1 s or more and the last of the points whose
\* time error is below 1 s, and removes the others.
C4_PromptPointsRemoved ==
    (/\ last_call.op = "load_and_truncate_data"
     /\ last_call.arg = "prompt_time_error"
     /\ last_call.raised = "none")
    => /\ Rows(ActiveY(self)) = KeptByDocstring(data_file[self.data_mode])
       /\ Rows(ActiveTime(self)) = KeptByDocstring(data_file[self.data_mode])

\* C8: after load_data and truncate, with any method and in any of the three
\* data modes, the time, time error, y and y error arrays of the active mode
\* hold the same observations at the same indices.
C8_ArraysAligned ==
    (/\ last_call.op = "load_and_truncate_data"
     /\ last_call.arg \in TruncateMethods
     /\ last_call.raised = "none")
    => /\ ActiveTimeErr(self).ndim = 2 /\ ActiveYErr(self).ndim = 2
       /\ Rows(ActiveTime(self)) = Rows(ActiveY(self))
       /\ Rows(ActiveTimeErr(self).cols) = Rows(ActiveY(self))
       /\ Rows(ActiveYErr(self).cols) = Rows(ActiveY(self))

\* ------------------------------------------------------ the Afterglow's name
MaxNameLen == 3
NameChars == {"G", "R", "B", "1", "A"}
Names == UNION {[1..n -> NameChars] : n \in 0..MaxNameLen}

GRB == <<"G", "R", "B">>

\* str.startswith
StartsWith(str, prefix) ==
    Len(str) >= Len(prefix) /\ SubSeq(str, 1, Len(prefix)) = prefix

RECURSIVE LStrip(_, _)
\* str.lstrip(chars): leading characters are dropped while they are among chars
LStrip(str, chars) ==
    IF str # <<>> /\ Head(str) \in chars THEN LStrip(Tail(str), chars) ELSE str

Range(f) == {f[i] : i \in DOMAIN f}

\* __init__: if not name.startswith('GRB'): name = 'GRB' + name
InitName(arg) == IF ~StartsWith(arg, GRB) THEN GRB \o arg ELSE arg

\* _stripped_name: self.name.lstrip('GRB')
_stripped_name(n) == LStrip(n, Range(GRB))

\* Afterglow(name) for each name
InitNamed ==
    /\ \E arg \in Names : name = InitName(arg)
    /\ stripped = Unread
    /\ AfterglowAside
    /\ tde = TdeIdle /\ mz = MzIdle

\* a read of the property _stripped_name
ReadStrippedName ==
    /\ stripped' = _stripped_name(name)
    /\ UNCHANGED <<name, afterglowVars, tde, mz>>

NextNamed == ReadStrippedName

SpecName == InitNamed /\ [][NextNamed]_vars

\* C7: the stored name starts with 'GRB', and _stripped_name is the stored name
\* without that prefix: 'GRB' + _stripped_name == name.
C7_StrippedNameIsNameWithoutPrefix ==
    /\ StartsWith(name, GRB)
    /\ stripped # Unread => GRB \o stripped = name

\* ------------------------------------------------------------- tde_models
MaxDay == 4
MaxTimes == 2

\* l0 / (days * 86400) ** (5. / 3.), kept in closed form: [l0, days]
Power53(l0, days) == [l0 |-> l0, days |-> days]
Zero == [l0 |-> 0, days |-> 1]

\* a <= b for two such values: the cubes are compared, the factor 86400 ** 5 is
\* common to both sides.  A value with days = 0 is infinite.
LumLE(a, b) == (a.l0 * a.l0 * a.l0) * (b.days * b.days * b.days * b.days * b.days)
                   <= (b.l0 * b.l0 * b.l0) * (a.days * a.days * a.days * a.days * a.days)

\* A slip of the mask: the two branches are exchanged.
analytic_fallback_mask_inverted(time, l0, t_0) ==
    LET mask == [i \in 1..Len(time) |-> time[i] - t_0 < 0]
        lbol0 == [i \in 1..Len(time) |-> Zero]
        lbol1 == [i \in 1..Len(time) |->
                     IF mask[i] THEN Power53(l0, time[i]) ELSE lbol0[i]]
    IN [i \in 1..Len(time) |-> IF ~mask[i] THEN Power53(l0, t_0) ELSE lbol1[i]]

_analytic_fallback(time, l0, t_0) ==
    LET mask == [i \in 1..Len(time) |-> time[i] - t_0 > 0]
        lbol0 == [i \in 1..Len(time) |-> Zero]
        lbol1 == [i \in 1..Len(time) |->
                     IF mask[i] THEN Power53(l0, time[i]) ELSE lbol0[i]]
    IN [i \in 1..Len(time) |-> IF ~mask[i] THEN Power53(l0, t_0) ELSE lbol1[i]]

\* The names bound at the top level of tde_models.py.
ModuleNames ==
    {"np", "ip", "sed", "photosphere", "cosmo", "calc_kcorrected_properties",
     "citation_wrapper", "cc", "namedtuple", "uu", "_analytic_fallback",
     "_semianalytical_fallback", "_metzger_tde", "metzger_tde",
     "tde_analytical_bolometric", "tde_analytical", "tde_semianalytical"}

Stmt(line, loads, keys, stores) ==
    [line |-> line, loads |-> loads, keys |-> keys, stores |-> stores]

\* The statements of metzger_tde: the names each one reads, the keys of kwargs
\* it subscripts and the names it binds.
metzger_tde_params ==
    {"time", "redshift", "mbh_6", "stellar_mass", "eta", "alpha", "beta", "kwargs"}
metzger_tde_body ==
    << Stmt(181, {"kwargs"}, {"frequency"}, {"frequency"}),
       Stmt(182, {"_metzger_tde", "time_temp", "kwargs"}, {}, {"output"}),
       Stmt(183, {"cosmo", "redshift"}, {}, {"dl"}),
       Stmt(186, {"interp1d", "output"}, {}, {"temp_func"}),
       Stmt(187, {"interp1d", "output"}, {}, {"rad_func"}),
       Stmt(190, {"time", "day_to_s"}, {}, {"time"}),
       Stmt(191, {"calc_kcorrected_properties", "frequency", "redshift", "time"}, {},
            {"frequency", "time"}),
       Stmt(193, {"temp_func", "time"}, {}, {"temp"}),
       Stmt(194, {"rad_func", "time"}, {}, {"photosphere"}),
       Stmt(196, {"blackbody_to_flux_density", "temp", "photosphere", "dl", "frequency"},
            {}, {"flux_density"}),
       Stmt(199, {"kwargs"}, {"output_format"}, {}) >>

RECURSIVE Exec(_, _, _, _)
\* Runs the statements from the i-th on: a name that is neither a local nor a
\* name of the module raises NameError, a missing key raises KeyError.
Exec(body, i, locals, kwargs) ==
    IF i > Len(body) THEN [raised |-> "none", line |-> 0]
    ELSE IF ~(body[i].loads \subseteq (locals \cup ModuleNames)) THEN
        [raised |-> "NameError", line |-> body[i].line]
    ELSE IF ~(body[i].keys \subseteq DOMAIN kwargs) THEN
        [raised |-> "KeyError", line |-> body[i].line]
    ELSE Exec(body, i + 1, locals \cup body[i].stores, kwargs)

\* the two returns at the end of metzger_tde and of tde_analytical
ByOutputFormat(kwargs) ==
    IF kwargs["output_format"] = "flux_density" THEN "flux_density.to(uu.mJy).value"
    ELSE IF kwargs["output_format"] = "magnitude" THEN "flux_density.to(uu.ABmag).value"
    ELSE "None"

NoLbol == [kind |-> "-", lbol |-> <<>>]

Outcome(fn, args, raised, line, lbol, value) ==
    [fn |-> fn, args |-> args, raised |-> raised, line |-> line, lbol |-> lbol,
     value |-> value]

metzger_tde(args) ==
    LET r == Exec(metzger_tde_body, 1, metzger_tde_params, args.kwargs)
    IN Outcome("metzger_tde", args, r.raised, r.line, NoLbol,
               IF r.raised = "none" THEN ByOutputFormat(args.kwargs) ELSE "-")

\* tde_analytical_bolometric.  An interaction process other than None is a class
\* of redback.interaction_processes; its new_luminosity is not followed.
tde_analytical_bolometric(time, l0, t_0, interaction_process) ==
    LET lbol == _analytic_fallback(time, l0, t_0)
    IN IF interaction_process # "None"
       THEN [kind |-> "new_luminosity", lbol |-> lbol]
       ELSE [kind |-> "engine", lbol |-> lbol]

\* calc_kcorrected_properties: the time in the source frame, time / (1 + z),
\* with z in quarters.
KCorrectedTime(time, zq) == [i \in 1..Len(time) |-> (time[i] * 4) \div (4 + zq)]

\* The keywords tde_analytical names in its call of tde_analytical_bolometric.
BolometricKeywords == {"time", "l0", "t_0", "interaction_process"}

tde_analytical(args) ==
    LET kwargs == args.kwargs
        _interaction_process ==
            IF "interaction_process" \in DOMAIN kwargs
            THEN kwargs["interaction_process"] ELSE "Diffusion"
        time == KCorrectedTime(args.time, args.redshift)
    IN IF "frequency" \notin DOMAIN kwargs THEN
            Outcome("tde_analytical", args, "KeyError", 242, NoLbol, "-")
       ELSE IF BolometricKeywords \cap DOMAIN kwargs # {} THEN
            \* a keyword given by name and once more through **kwargs
            Outcome("tde_analytical", args, "TypeError", 246, NoLbol, "-")
       ELSE LET b == tde_analytical_bolometric(time, args.l0, args.t_0,
                                               _interaction_process)
            IN IF "output_format" \notin DOMAIN kwargs THEN
                    Outcome("tde_analytical", args, "KeyError", 254, b, "-")
               ELSE Outcome("tde_analytical", args, "none", 0, b, ByOutputFormat(kwargs))

\* ------------------------------------------- calls of tde_models' functions
Days == 0..MaxDay
TimeArrays == UNION {[1..n -> Days] : n \in 1..MaxTimes}
L0s == {1, 2}
TurnOnDays == 1..MaxDay
InteractionProcesses == {"None", "Diffusion"}
OutputFormats == {"flux_density", "magnitude"}

\* every dictionary over the keys, each key present or absent
KwargsOver(keys, values) ==
    UNION {[d -> UNION {values[k] : k \in keys}] : d \in SUBSET keys}

KwargValues ==
    [k \in {"frequency", "output_format", "interaction_process"} |->
        IF k = "frequency" THEN {"nu"}
        ELSE IF k = "output_format" THEN OutputFormats
        ELSE InteractionProcesses]

WellTyped(kw) == \A k \in DOMAIN kw : kw[k] \in KwargValues[k]

MetzgerKwargs ==
    {kw \in KwargsOver({"frequency", "output_format"}, KwargValues) : WellTyped(kw)}
AnalyticalKwargs ==
    {kw \in KwargsOver({"frequency", "output_format", "interaction_process"},
                       KwargValues) : WellTyped(kw)}

InitTde ==
    /\ tde = TdeIdle
    /\ mz = MzIdle
    /\ name = GRB /\ stripped = Unread
    /\ AfterglowAside

Idle == tde.fn = "-"

CallAnalyticFallback ==
    /\ Idle
    /\ \E time \in TimeArrays, l0 \in L0s, t_0 \in TurnOnDays :
          tde' = Outcome("_analytic_fallback", [time |-> time, l0 |-> l0, t_0 |-> t_0],
                         "none", 0, [kind |-> "engine",
                                     lbol |-> _analytic_fallback(time, l0, t_0)], "-")
    /\ UNCHANGED <<afterglowVars, nameVars, mz>>

CallTdeAnalyticalBolometric ==
    /\ Idle
    /\ \E time \in TimeArrays, l0 \in L0s, t_0 \in TurnOnDays,
          interaction_process \in InteractionProcesses :
          tde' = Outcome("tde_analytical_bolometric",
                         [time |-> time, l0 |-> l0, t_0 |-> t_0,
                          interaction_process |-> interaction_process],
                         "none", 0,
                         tde_analytical_bolometric(time, l0, t_0, interaction_process),
                         "-")
    /\ UNCHANGED <<afterglowVars, nameVars, mz>>

CallTdeAnalytical ==
    /\ Idle
    /\ \E time \in TimeArrays, zq \in {0, 4}, l0 \in L0s, t_0 \in TurnOnDays,
          kwargs \in AnalyticalKwargs :
          tde' = tde_analytical([time |-> [i \in 1..Len(time) |-> 2 * time[i]],
                                 redshift |-> zq, l0 |-> l0, t_0 |-> t_0,
                                 kwargs |-> kwargs])
    /\ UNCHANGED <<afterglowVars, nameVars, mz>>

CallMetzgerTde ==
    /\ Idle
    /\ \E time \in TimeArrays, mbh_6 \in {1, 2}, kwargs \in MetzgerKwargs :
          tde' = metzger_tde([time |-> time, redshift |-> 0, mbh_6 |-> mbh_6,
                              stellar_mass |-> 1, eta |-> 1, alpha |-> 1, beta |-> 1,
                              kwargs |-> kwargs])
    /\ UNCHANGED <<afterglowVars, nameVars, mz>>

\* the call is over, with its value or its exception
Return ==
    /\ ~Idle
    /\ tde' = TdeIdle
    /\ UNCHANGED <<afterglowVars, nameVars, mz>>

NextTde ==
    \/ CallAnalyticFallback
    \/ CallTdeAnalyticalBolometric
    \/ CallTdeAnalytical
    \/ CallMetzgerTde
    \/ Return

SpecTde == InitTde /\ [][NextTde]_vars

\* C1: metzger_tde, given 'frequency' and 'output_format', does not raise and
\* returns the flux density for 'flux_density' and the AB magnitude for
\* 'magnitude'.
C1_MetzgerTdeReturns ==
    (/\ tde.fn = "metzger_tde"
     /\ {"frequency", "output_format"} \subseteq DOMAIN tde.args.kwargs)
    => /\ tde.raised = "none"
       /\ tde.value = ByOutputFormat(tde.args.kwargs)

\* C5: with interaction_process=None both tde_analytical_bolometric and
\* tde_analytical raise nothing on its account and use the raw engine
\* luminosity of _analytic_fallback at the times they evaluate.
PassesNone(o) ==
    \/ /\ o.fn = "tde_analytical_bolometric"
       /\ o.args.interaction_process = "None"
    \/ /\ o.fn = "tde_analytical"
       /\ {"frequency", "interaction_process"} \subseteq DOMAIN o.args.kwargs
       /\ o.args.kwargs["interaction_process"] = "None"

C5_NoneGivesEngineLuminosity ==
    PassesNone(tde)
    => /\ tde.raised \in {"none", "KeyError"}
       /\ tde.lbol.kind = "engine"
       /\ tde.lbol.lbol =
            _analytic_fallback(
                IF tde.fn = "tde_analytical"
                THEN KCorrectedTime(tde.args.time, tde.args.redshift)
                ELSE tde.args.time,
                tde.args.l0, tde.args.t_0)

NumPoints == 500

\* np.logspace(log10(tfb), log10(100*tfb), 500): point k (from 0) is
\* tfb * 10 ** (2k / 499).  The grid is kept as the numerators 2k of the
\* exponents over the common denominator NumPoints - 1; 10 ** x grows with x,
\* so two times compare as their numerators do.
LogSpace(num) == [k \in 1..num |-> 2 * (k - 1)]

\* a[k] for a Python index, which counts from the end when negative
At(a, k) == a[(k % Len(a)) + 1]

\* np.empty_like: the cells hold whatever the memory held
EmptyLike(a) == [k \in 1..Len(a) |-> "uninitialized"]

\* A value computed from cells: defined when all of them are.
Computed(cells) == IF cells \subseteq {"defined"} THEN "defined" ELSE "garbage"

StoreAt(a, k, v) == [a EXCEPT ![(k % Len(a)) + 1] = v]

\* The locals after lines 37 to 125: the grids are allocated, grid point 0 of
\* each recurrence variable is initialized, Mdotfb is computed on the whole
\* grid, and the loop is about to start.
MetzgerStart ==
    LET time_temp == LogSpace(NumPoints)
        empty == EmptyLike(time_temp)
    IN [pc |-> "loop", ii |-> 0, t |-> time_temp,
        Mdotfb |-> [k \in 1..NumPoints |-> "defined"],
        Me |-> StoreAt(empty, 0, "defined"),
        Rv |-> StoreAt(empty, 0, "defined"),
        Ee40 |-> StoreAt(empty, 0, "defined"),
        MdotBH |-> StoreAt(empty, 0, "defined"),
        Edotbh40 |-> StoreAt(empty, 0, "defined"),
        dt |-> 0]

InitMetzger ==
    /\ mz = MetzgerStart
    /\ tde = TdeIdle
    /\ name = GRB /\ stripped = Unread
    /\ AfterglowAside

\* One pass of "for ii in range(len(time_temp))": lines 127 to 152.
LoopBody(m) ==
    LET ii == m.ii
        dt == At(m.t, ii) - At(m.t, ii - 1)
        Me_ii == Computed({At(m.Me, ii - 1), At(m.MdotBH, ii - 1), At(m.Mdotfb, ii - 1)})
        Ee40_ii == Computed({At(m.Ee40, ii - 1), At(m.Edotbh40, ii - 1)})
        Rv_ii == Computed({Me_ii, Ee40_ii})
        tacc_ii == Rv_ii
        MdotBH_ii == Computed({Me_ii, tacc_ii})
    IN [m EXCEPT !.Me = StoreAt(@, ii, Me_ii),
                 !.Ee40 = StoreAt(@, ii, Ee40_ii),
                 !.Rv = StoreAt(@, ii, Rv_ii),
                 !.MdotBH = StoreAt(@, ii, MdotBH_ii),
                 !.Edotbh40 = StoreAt(@, ii, MdotBH_ii),
                 !.dt = dt,
                 !.ii = ii + 1]

Iterate ==
    /\ mz.pc = "loop"
    /\ mz.ii < Len(mz.t)
    /\ mz' = LoopBody(mz)
    /\ UNCHANGED <<afterglowVars, nameVars, tde>>

\* the loop is over and the output tuple is returned
ReturnOutput ==
    /\ mz.pc = "loop"
    /\ mz.ii = Len(mz.t)
    /\ mz' = [mz EXCEPT !.pc = "returned"]
    /\ UNCHANGED <<afterglowVars, nameVars, tde>>

NextMetzger == Iterate \/ ReturnOutput

SpecMetzger == InitMetzger /\ [][NextMetzger]_vars

\* C9: the time grid has 500 points, strictly increasing from tfb to 100*tfb,
\* and every time step t[ii] - t[ii-1] used in an update of Me or Ee40 is
\* strictly positive.
C9_GridIncreasesAndStepsArePositive ==
    /\ Len(mz.t) = NumPoints
    /\ mz.t[1] = 0 /\ mz.t[NumPoints] = 2 * (NumPoints - 1)
    /\ \A k \in 1..(NumPoints - 1) : mz.t[k] < mz.t[k + 1]
    /\ mz.ii > 0 => mz.dt > 0

====
